---------------------------- MODULE Spec2Model ----------------------------
(***************************************************************************)
(* Model of update_music_activity.py: SpotifyActivityUpdater.              *)
(*                                                                         *)
(* Text is a sequence of symbols.  A symbol is one character, or one       *)
(* opaque piece of fixed markup that holds no marker, heading or entity.   *)
(* Positions and slices follow Python: 0-based, end-exclusive, find gives  *)
(* -1 when the text is absent.                                             *)
(***************************************************************************)
EXTENDS Integers, Sequences, FiniteSets, TLC

VARIABLES
    pc,               \* position in main / run / update_readme
    supabase_url,     \* the environment's SUPABASE_URL, Null when unset
    supabase_key,     \* the environment's SUPABASE_KEY, Null when unset
    supabase,         \* TRUE once the store client is created
    svg_dir,          \* TRUE once the SVG directory is there
    exc,              \* the exception in flight, "none" when there is none
    svg_files,        \* the files of the SVG directory, by name
    latest_content,   \* run: what format_latest_track returned
    ranking_content,  \* run: what format_track_ranking returned
    net_calls,        \* the network calls of the formatter that ran last
    spotify_logs,     \* the rows of the store that the ranking query matches
    latest_response,  \* get_latest_track: what the query gave
    ranking_response, \* get_track_ranking: what the query gave
    limit,            \* get_track_ranking's argument
    latest,           \* run: what get_latest_track returned
    ranking,          \* run: what get_track_ranking returned
    readme,           \* README.md on disk
    readme_orig,      \* README.md as it was when the run started (history)
    spotify_content,  \* update_readme's argument
    content,          \* update_readme: the text read from README.md
    new_content,      \* update_readme: the text to write
    calls             \* the fragments update_readme was called with (history)

fetchVars == <<spotify_logs, latest_response, ranking_response, limit, latest, ranking>>

renderVars == <<svg_files, latest_content, ranking_content, net_calls>>

patchVars == <<readme, readme_orig, spotify_content, content, new_content, calls>>

setupVars == <<supabase_url, supabase_key, supabase, svg_dir>>

vars == <<pc, exc, setupVars, fetchVars, renderVars, patchVars>>

(***************************************************************************)
(* Bounds of the model.                                                    *)
(***************************************************************************)
MaxParts == 4
MaxFragParts == 1
MaxPartial == 1
MaxRows == 3
MaxLimit == 3
MaxPad == 34
MaxCalls == 2
MaxRepeatParts == 3

(***************************************************************************)
(* Python string operations.                                               *)
(***************************************************************************)
Min(a, b) == IF a <= b THEN a ELSE b

Max(a, b) == IF a >= b THEN a ELSE b

\* s[i:j] for 0 <= i, 0 <= j
Slice(s, i, j) == SubSeq(s, i + 1, Min(j, Len(s)))

\* s[i:]
SliceFrom(s, i) == SubSeq(s, i + 1, Len(s))

\* whether sub occurs in s at 0-based position i
OccursAt(s, sub, i) ==
    /\ i + Len(sub) <= Len(s)
    /\ \A k \in 1..Len(sub) : s[i + k] = sub[k]

\* s.find(sub): the lowest position of an occurrence, -1 when there is none
Find(s, sub) ==
    LET hits == {i \in 0..Len(s) : OccursAt(s, sub, i)}
    IN  IF hits = {} THEN -1
        ELSE CHOOSE i \in hits : \A j \in hits : i <= j

Contains(s, sub) == Find(s, sub) # -1

NL == <<"\n">>

(***************************************************************************)
(* Values of a row's fields.  A string is Str(characters); a field that is *)
(* present but null is Null; a key the row does not have is Missing.       *)
(***************************************************************************)
Str(s) == <<"str", s>>

Num(n) == <<"int", n>>

Null == <<"None">>

Missing == <<"missing">>

\* {}
EmptyDict == <<"dict", <<"missing">>>>

\* log.get(key, default)
Get(v, default) == IF v = Missing THEN default ELSE v

\* str(v), and {v} in an f-string
Format(v) == IF v = Null THEN <<"N", "o", "n", "e">> ELSE v[2]

\* bool(v) of a string or None
Truthy(v) == v # Null /\ v # Missing /\ v # Str(<<>>)

(***************************************************************************)
(* get_track_ranking.  track_counts, a dict, keeps its keys in the order   *)
(* of their insertion: a sequence of <<key, entry>>.                       *)
(***************************************************************************)
\* line 80
TrackKey(log) ==
    Format(Get(log.track_name, Str(<<>>))) \o <<"|">>
        \o Format(Get(log.artist_name, Str(<<>>)))

\* lines 82-91
NewEntry(log) ==
    [track_name |-> Get(log.track_name, Str(<<>>)),
     artist_name |-> Get(log.artist_name, Str(<<>>)),
     album_name |-> Get(log.album_name, Str(<<>>)),
     track_id |-> Get(log.track_id, Str(<<>>)),
     album_id |-> Get(log.album_id, Str(<<>>)),
     external_urls |-> Get(log.external_urls, EmptyDict),
     popularity |-> Get(log.popularity, Num(0)),
     play_count |-> 0]

KeyIndex(track_counts, key) ==
    LET at == {i \in 1..Len(track_counts) : track_counts[i][1] = key}
    IN  IF at = {} THEN 0 ELSE CHOOSE i \in at : TRUE

\* the loop of lines 79-92 storing the metadata of every record, so that the
\* last record of a key is the one kept
RECURSIVE CountTracksLastSeen(_, _)
CountTracksLastSeen(data, track_counts) ==
    IF data = <<>> THEN track_counts
    ELSE LET log == Head(data)
             track_key == TrackKey(log)
             known == IF KeyIndex(track_counts, track_key) = 0
                      THEN Append(track_counts, <<track_key, NewEntry(log)>>)
                      ELSE track_counts
             i == KeyIndex(known, track_key)
         IN  CountTracksLastSeen(Tail(data),
                 [known EXCEPT ![i][2] =
                     [NewEntry(log) EXCEPT !.play_count = known[i][2].play_count + 1]])

\* lines 79-92
RECURSIVE CountTracks(_, _)
CountTracks(data, track_counts) ==
    IF data = <<>> THEN track_counts
    ELSE LET log == Head(data)
             track_key == TrackKey(log)
             known == IF KeyIndex(track_counts, track_key) = 0
                      THEN Append(track_counts, <<track_key, NewEntry(log)>>)
                      ELSE track_counts
             i == KeyIndex(known, track_key)
         IN  CountTracks(Tail(data),
                 [known EXCEPT ![i][2].play_count = @ + 1])

\* track_counts.values()
Values(track_counts) == [i \in 1..Len(track_counts) |-> track_counts[i][2]]

\* InsertByPlayCount as an ascending sort read backwards would do it: e goes
\* before the entries that play as often
InsertByPlayCountTiesReversed(sorted, e) ==
    LET k == Cardinality({i \in 1..Len(sorted) :
                             sorted[i].play_count > e.play_count})
    IN  SubSeq(sorted, 1, k) \o <<e>> \o SubSeq(sorted, k + 1, Len(sorted))

\* where sorted() puts e among entries already in order: after every entry
\* that plays at least as often
InsertByPlayCount(sorted, e) ==
    LET k == Cardinality({i \in 1..Len(sorted) :
                             sorted[i].play_count >= e.play_count})
    IN  SubSeq(sorted, 1, k) \o <<e>> \o SubSeq(sorted, k + 1, Len(sorted))

\* line 95: sorted(..., key=play_count, reverse=True), a stable sort
RECURSIVE SortedByPlayCount(_, _)
SortedByPlayCount(entries, sorted) ==
    IF entries = <<>> THEN sorted
    ELSE SortedByPlayCount(Tail(entries), InsertByPlayCount(sorted, Head(entries)))

\* lines 76-101, given response.data
TrackRanking(data, lim) ==
    IF data = <<>> THEN <<>>
    ELSE Slice(SortedByPlayCount(Values(CountTracks(data, <<>>)), <<>>), 0, lim)

(***************************************************************************)
(* The two queries.  A response is <<"raise">> (the query raised),         *)
(* <<"no_data">> (a response without data) or <<"data", rows>>.            *)
(***************************************************************************)
\* the object after a construction that did not raise
Constructed ==
    /\ supabase_url = Str(<<"u">>)
    /\ supabase_key = Str(<<"k">>)
    /\ supabase = TRUE
    /\ svg_dir = TRUE

\* lines 19-37 without the check of line 28: the client is made of whatever
\* the environment holds
ConstructUnchecked ==
    /\ pc = "construct"
    /\ supabase' = TRUE
    /\ svg_dir' = TRUE
    /\ pc' = "get_latest"
    /\ UNCHANGED <<exc, supabase_url, supabase_key, fetchVars, renderVars, patchVars>>

\* lines 19-37 and 661: SpotifyActivityUpdater(); its error leaves main
Construct ==
    /\ pc = "construct"
    /\ IF ~Truthy(supabase_url) \/ ~Truthy(supabase_key)
       THEN /\ exc' = "config"
            /\ pc' = "raised"
            /\ UNCHANGED <<supabase, svg_dir>>
       ELSE /\ supabase' = TRUE
            /\ svg_dir' = TRUE
            /\ pc' = "get_latest"
            /\ exc' = exc
    /\ UNCHANGED <<supabase_url, supabase_key, fetchVars, renderVars, patchVars>>

NotAsked == <<"not_asked">>

HasData(response) == response[1] = "data" /\ response[2] # <<>>

\* the rows the latest-track query may give: it asks for one row
LatestRows ==
    {[track_name |-> t, artist_name |-> Str(<<"b">>), album_name |-> Str(<<>>),
      track_id |-> Str(<<"1">>), album_id |-> Str(<<>>),
      external_urls |-> EmptyDict, popularity |-> Num(0)] :
        t \in {Str(<<"a">>), Null, Missing}}

LatestResponses ==
    {<<"raise">>, <<"no_data">>, <<"data", <<>>>>}
        \cup {<<"data", <<row>>>> : row \in LatestRows}

\* lines 292-297, given the response
LatestOf(response) ==
    IF HasData(response) THEN <<"row", response[2][1]>> ELSE Null

\* lines 279-300
GetLatestTrack ==
    /\ pc = "get_latest"
    /\ \E response \in LatestResponses :
         /\ latest_response' = response
         /\ latest' = LatestOf(response)
    /\ pc' = "format_latest"
    /\ UNCHANGED <<exc, spotify_logs, ranking_response, limit, ranking>>
    /\ UNCHANGED <<setupVars, renderVars, patchVars>>

\* get_track_ranking without its try: the error of the query leaves it
GetTrackRankingUncaught(lim) ==
    /\ pc = "get_ranking"
    /\ \E response \in {<<"raise">>, <<"no_data">>, <<"data", spotify_logs>>} :
         /\ ranking_response' = response
         /\ ranking' = IF HasData(response)
                       THEN TrackRanking(response[2], lim)
                       ELSE <<>>
         /\ pc' = IF response = <<"raise">> THEN "run_except" ELSE "format_ranking"
         /\ exc' = IF response = <<"raise">> THEN "fetch" ELSE exc
    /\ limit' = lim
    /\ UNCHANGED <<spotify_logs, latest_response, latest>>
    /\ UNCHANGED <<setupVars, renderVars, patchVars>>

\* lines 64-105
GetTrackRanking(lim) ==
    /\ pc = "get_ranking"
    /\ \E response \in {<<"raise">>, <<"no_data">>, <<"data", spotify_logs>>} :
         /\ ranking_response' = response
         /\ ranking' = IF HasData(response)
                       THEN TrackRanking(response[2], lim)
                       ELSE <<>>
    /\ limit' = lim
    /\ pc' = "format_ranking"
    /\ UNCHANGED <<exc, spotify_logs, latest_response, latest>>
    /\ UNCHANGED <<setupVars, renderVars, patchVars>>

(***************************************************************************)
(* Escaping.                                                               *)
(***************************************************************************)
\* html.escape(s), quote=True, one character
EscapeChar(c) ==
    CASE c = "&" -> <<"&", "a", "m", "p", ";">>
      [] c = "<" -> <<"&", "l", "t", ";">>
      [] c = ">" -> <<"&", "g", "t", ";">>
      [] c = "\"" -> <<"&", "q", "u", "o", "t", ";">>
      [] c = "'" -> <<"&", "#", "x", "2", "7", ";">>
      [] OTHER -> <<c>>

\* line 15: html.escape
RECURSIVE escape(_)
escape(s) == IF s = <<>> THEN <<>> ELSE EscapeChar(Head(s)) \o escape(Tail(s))

\* lines 45-51, one character: no escape of the single quote
XmlAttrChar(c) == IF c = "'" THEN <<c>> ELSE EscapeChar(c)

\* lines 46-50
RECURSIVE XmlAttrText(_)
XmlAttrText(s) ==
    IF s = <<>> THEN <<>> ELSE XmlAttrChar(Head(s)) \o XmlAttrText(Tail(s))

\* lines 39-51
xml_attr(value) == IF value = Null THEN <<>> ELSE XmlAttrText(Format(value))

\* s[:n] + ('...' if len(s) > n else '')
Truncated(s, n) ==
    Slice(s, 0, n) \o (IF Len(s) > n THEN <<".", ".", ".">> ELSE <<>>)

\* the display limits of the two cards
RankingTrackChars == 20

RankingArtistChars == 25

LatestTrackChars == 30

LatestArtistChars == 35

(***************************************************************************)
(* The network calls of the renderer, by their outcome.                    *)
(***************************************************************************)
ThumbnailUrl == <<"https://i.scdn.co/image/1">>

OEmbedOutcomes ==
    {"ok", "non_200", "exception", "bad_json", "no_thumbnail", "thumbnail_not_str"}

\* _get_album_art_via_oembed without its try: an exception of the request
\* or of response.json() leaves it
get_album_art_via_oembed_uncaught(spotify_url, outcome) ==
    IF spotify_url = <<>> THEN <<>>
    ELSE IF outcome = "ok" THEN ThumbnailUrl
    ELSE IF outcome \in {"exception", "bad_json"} THEN <<"raise">>
    ELSE <<>>

\* lines 494-517
get_album_art_via_oembed(spotify_url, outcome) ==
    IF spotify_url = <<>> THEN <<>>
    ELSE IF outcome = "ok" THEN ThumbnailUrl
    ELSE <<>>

PrimaryOutcomes == {"ok", "non_200", "empty_body", "exception"}

FallbackOutcomes == {"ok", "http_error", "exception"}

ArtDataUri == <<"data:", "image/jpeg", ";base64,", "b64(art)">>

PlaceholdDataUri == <<"data:", "image/png", ";base64,", "b64(placehold.co)">>

TransparentPngDataUri == <<"data:", "image/png", ";base64,", "iVBORw0KGgo...">>

\* lines 466-469 and 479-482: the placeholder of placehold.co
FallbackImage(fallback) ==
    IF fallback = "ok" THEN PlaceholdDataUri ELSE TransparentPngDataUri

\* _image_data_uri without its except clause: a failed request raises
image_data_uri_uncaught(source_url, primary, fallback) ==
    IF source_url = <<>>
    THEN (IF fallback = "ok" THEN PlaceholdDataUri ELSE <<"raise">>)
    ELSE IF primary = "ok" THEN ArtDataUri
    ELSE IF primary = "exception" THEN <<"raise">>
    ELSE IF fallback = "ok" THEN PlaceholdDataUri ELSE <<"raise">>

\* lines 456-492
image_data_uri(source_url, primary, fallback) ==
    IF source_url = <<>> THEN FallbackImage(fallback)
    ELSE IF primary = "ok" THEN ArtDataUri
    ELSE IF primary = "exception" THEN TransparentPngDataUri
    ELSE FallbackImage(fallback)

NotCalled == "not_called"

\* lines 227-232 and 337-342: the two calls made for one track, with the
\* outcome of each request that was sent
NetCall(oembed_target_url, o, p, f) ==
    LET album_art_url == IF oembed_target_url # <<>>
                         THEN get_album_art_via_oembed(oembed_target_url, o)
                         ELSE <<>>
    IN  [url |-> oembed_target_url,
         oembed |-> IF oembed_target_url # <<>> THEN o ELSE NotCalled,
         album_art_url |-> album_art_url,
         primary |-> IF album_art_url # <<>> THEN p ELSE NotCalled,
         fallback |-> IF album_art_url = <<>> \/ p \in {"non_200", "empty_body"}
                      THEN f ELSE NotCalled,
         image_src |-> image_data_uri(album_art_url, p, f)]

NetCalls(oembed_target_url) ==
    {NetCall(oembed_target_url, o, p, f) :
        o \in OEmbedOutcomes, p \in PrimaryOutcomes, f \in FallbackOutcomes}

\* what the two calls can give for one track: <<album_art_url, image_src>>
NetResults(oembed_target_url) ==
    {<<c.album_art_url, c.image_src>> : c \in NetCalls(oembed_target_url)}

(***************************************************************************)
(* external_urls.  A raw value is Dict(u), a dict whose 'spotify' entry is *)
(* the text u (Missing when it has none); Json(v), a text that json.loads  *)
(* turns into v; BadJson, a text that json.loads rejects; Str(<<>>); Null; *)
(* or a number.                                                            *)
(***************************************************************************)
Dict(u) == <<"dict", u>>

Json(v) == <<"json", v>>

BadJson == <<"bad_json">>

JsonList == <<"list">>

IsDict(v) == v[1] = "dict"

\* lines 540-564
parse_external_urls(external_urls_raw) ==
    IF IsDict(external_urls_raw) THEN external_urls_raw
    ELSE IF external_urls_raw[1] = "json" THEN external_urls_raw[2]
    ELSE EmptyDict

\* lines 220-223 and 332-334: a value, Str(<<>>) when there is no link
SpotifyUrl(external_urls) ==
    IF IsDict(external_urls) /\ external_urls[2] # Missing
    THEN external_urls[2]
    ELSE Str(<<>>)

\* lines 227 and 337: the text of the URL to look up, <<>> when there is none
OEmbedTargetUrl(spotify_url, track_id) ==
    IF Truthy(spotify_url) THEN Format(spotify_url)
    ELSE IF Truthy(track_id)
         THEN <<"https://open.spotify.com/track/">> \o Format(track_id)
         ELSE <<>>

(***************************************************************************)
(* The two cards.  Fixed markup is written as one symbol a piece.          *)
(***************************************************************************)
NoTrackText == <<"N", "o", " ", "T", "r", "a", "c", "k">>

NoArtistText == <<"N", "o", " ", "A", "r", "t", "i", "s", "t">>

DashText == <<"-">>

\* lines 321-322: the defaults of format_latest_track
UnknownTrackText ==
    <<"U", "n", "k", "n", "o", "w", "n", " ", "T", "r", "a", "c", "k">>

UnknownArtistText ==
    <<"U", "n", "k", "n", "o", "w", "n", " ", "A", "r", "t", "i", "s", "t">>

\* PlaceholderTrack with the names of the padding entry of lines 141-149
PlaceholderTrackUnnamed ==
    [track_name |-> Str(<<>>), artist_name |-> Str(<<>>),
     album_name |-> Str(<<>>), track_id |-> Str(<<>>), album_id |-> Str(<<>>),
     external_urls |-> <<"dict", <<"missing">>>>, play_count |-> 0]

\* lines 119-127
PlaceholderTrack ==
    [track_name |-> Str(NoTrackText), artist_name |-> Str(DashText),
     album_name |-> Str(<<>>), track_id |-> Str(<<>>), album_id |-> Str(<<>>),
     external_urls |-> EmptyDict, play_count |-> 0]

\* lines 141-149
PaddingTrack ==
    [track_name |-> Str(<<>>), artist_name |-> Str(<<>>),
     album_name |-> Str(<<>>), track_id |-> Str(<<>>), album_id |-> Str(<<>>),
     external_urls |-> EmptyDict, play_count |-> 0]

\* lines 139-149
RECURSIVE Padded(_)
Padded(top_3) == IF Len(top_3) < 3 THEN Padded(Append(top_3, PaddingTrack)) ELSE top_3

\* lines 117-128 and 139-149: the three tracks of the card
CardTracks(rnk) ==
    IF rnk = <<>> THEN <<PlaceholderTrack, PlaceholderTrack, PlaceholderTrack>>
    ELSE Padded(Slice(rnk, 0, 3))

\* lines 205-227: the URL looked up for a track of the ranking card
RankingTargetUrl(track) ==
    OEmbedTargetUrl(SpotifyUrl(parse_external_urls(track.external_urls)),
                    track.track_id)

\* lines 202-267: what one track adds to the body of the ranking card
RankingCardBody(i, track, image_src) ==
    LET track_name_raw == track.track_name
        artist_name_raw == track.artist_name
        track_name == IF Truthy(track_name_raw)
                      THEN escape(Format(track_name_raw)) ELSE NoTrackText
        artist_name == IF Truthy(artist_name_raw)
                       THEN escape(Format(artist_name_raw)) ELSE NoArtistText
        spotify_url == SpotifyUrl(parse_external_urls(track.external_urls))
        track_display == Truncated(track_name, RankingTrackChars)
        artist_display == Truncated(artist_name, RankingArtistChars)
    IN  <<"<rect card ", ToString(i), "/>", "<rect shine ", ToString(i), "/>">>
        \o (IF Truthy(track_name_raw)
            THEN <<"<circle/>", "<image xlink:href=">> \o xml_attr(Str(image_src))
                     \o <<"/>", "<text rank>", ToString(i), "</text>">>
                     \o <<"<tspan>">> \o track_display \o <<"</tspan>">>
                     \o <<"<tspan>">> \o artist_display \o <<"</tspan>">>
                     \o <<"<tspan>", ToString(track.play_count), " plays", "</tspan>">>
                     \o <<"<circle logo/>">>
                     \o (IF Truthy(spotify_url)
                         THEN <<"<a xlink:href=">> \o xml_attr(spotify_url)
                                  \o <<" target=_blank>", "<rect/>", "</a>">>
                         ELSE <<>>)
            ELSE <<>>)

RECURSIVE RankingCardBodies(_, _, _)
RankingCardBodies(tracks, nets, i) ==
    IF i > Len(tracks) THEN <<>>
    ELSE RankingCardBody(i, tracks[i], nets[i].image_src)
             \o RankingCardBodies(tracks, nets, i + 1)

RECURSIVE ClipDefs(_, _)
ClipDefs(n, i) ==
    IF i > n THEN <<>>
    ELSE <<"<clipPath art ", ToString(i), "/>", "<clipPath card ", ToString(i), "/>">>
             \o ClipDefs(n, i + 1)

\* lines 163-277; nets[i] is what the network gave for track i
create_ranking_svg_card(tracks, nets) ==
    <<"<svg 900x200>", "<defs>", "<gradients and shadow/>">>
        \o ClipDefs(Len(tracks), 1) \o <<"</defs>">>
        \o RankingCardBodies(tracks, nets, 1)
        \o <<"</svg>">>

\* lines 362-363
LatestCardWidth(track_name, artist_name) ==
    Max(400, Min(600, Max(Len(track_name), Len(artist_name)) * 8 + 200))

\* lines 359-441; the names come escaped
create_latest_track_svg_card(track_name, artist_name, image_src, spotify_url) ==
    <<"<svg width=", ToString(LatestCardWidth(track_name, artist_name)),
      " height=180>",
      "<defs/>", "<rect card/>", "<rect shine/>", "<circle/>">>
        \o <<"<image xlink:href=">> \o xml_attr(Str(image_src)) \o <<"/>">>
        \o <<"<tspan>">> \o Truncated(track_name, LatestTrackChars) \o <<"</tspan>">>
        \o <<"<tspan>">> \o Truncated(artist_name, LatestArtistChars) \o <<"</tspan>">>
        \o <<"<circle logo/>", "<rect bars/>">>
        \o <<"<a xlink:href=">> \o xml_attr(spotify_url)
        \o <<" target=_blank>", "<rect/>", "</a>", "</svg>">>

(***************************************************************************)
(* The files of the SVG directory and the two formatters.                  *)
(***************************************************************************)
SvgNames == {"latest_track.svg", "track_ranking.svg"}

Absent == <<"(no file)">>

NoSvgFiles == [name \in SvgNames |-> Absent]

\* lines 443-453: what the save can leave on disk, and what it returns
SaveOutcomes == {"saved", "open_failed", "write_failed"}

SvgFilesAfterSave(files, filename, svg_content, outcome) ==
    CASE outcome = "saved" -> [files EXCEPT ![filename] = svg_content]
      [] outcome = "write_failed" -> [files EXCEPT ![filename] = <<>>]
      [] OTHER -> files

SvgPath(filename, outcome) ==
    IF outcome = "saved" THEN <<"SVG/", filename>> ELSE <<>>

LatestTitle == <<"## Now playing">>

RankingTitle == <<"## Top Tracks (last 7 days)">>

\* lines 316-319 and 354-357
LatestFragment(svg_path, svg_card) ==
    IF svg_path # <<>>
    THEN LatestTitle \o NL \o NL \o <<"![Latest Track](">> \o svg_path \o <<")">>
    ELSE LatestTitle \o NL \o NL \o svg_card

\* lines 131-134 and 158-161
RankingFragment(svg_path, svg_card) ==
    IF svg_path # <<>>
    THEN RankingTitle \o NL \o NL \o <<"![Track Ranking](">> \o svg_path \o <<")">>
    ELSE RankingTitle \o NL \o NL \o svg_card

\* lines 305-348: the card of a latest track, given what the network gave
LatestCard(latest_track, net) ==
    IF latest_track = Null
    THEN create_latest_track_svg_card(NoTrackText, DashText, net.image_src,
                                      Str(<<>>))
    ELSE LET row == latest_track[2]
             track_name_raw == Get(row.track_name, Str(UnknownTrackText))
             artist_name_raw == Get(row.artist_name, Str(UnknownArtistText))
             spotify_url == SpotifyUrl(parse_external_urls(
                                Get(row.external_urls, EmptyDict)))
         IN  create_latest_track_svg_card(
                 escape(Format(track_name_raw)), escape(Format(artist_name_raw)),
                 net.image_src, spotify_url)

\* lines 311 and 331-339: the URL looked up for the latest track
LatestTargetUrl(latest_track) ==
    IF latest_track = Null THEN <<>>
    ELSE OEmbedTargetUrl(
             SpotifyUrl(parse_external_urls(
                 Get(latest_track[2].external_urls, EmptyDict))),
             Get(latest_track[2].track_id, Str(<<>>)))

\* lines 302-357
FormatLatestTrack ==
    /\ pc = "format_latest"
    /\ \E net \in NetCalls(LatestTargetUrl(latest)), outcome \in SaveOutcomes :
         LET svg_card == LatestCard(latest, net)
         IN  /\ net_calls' = <<net>>
             /\ svg_files' = SvgFilesAfterSave(svg_files, "latest_track.svg",
                                               svg_card, outcome)
             /\ latest_content' =
                    LatestFragment(SvgPath("latest_track.svg", outcome), svg_card)
    /\ pc' = "get_ranking"
    /\ UNCHANGED <<exc, ranking_content, setupVars, fetchVars, patchVars>>

\* lines 107-161
FormatTrackRanking ==
    /\ pc = "format_ranking"
    /\ LET tracks == CardTracks(ranking)
       IN  \E n1 \in NetCalls(RankingTargetUrl(tracks[1])),
              n2 \in NetCalls(RankingTargetUrl(tracks[2])),
              n3 \in NetCalls(RankingTargetUrl(tracks[3])),
              outcome \in SaveOutcomes :
             LET svg_card == create_ranking_svg_card(tracks, <<n1, n2, n3>>)
             IN  /\ net_calls' = <<n1, n2, n3>>
                 /\ svg_files' = SvgFilesAfterSave(svg_files, "track_ranking.svg",
                                                   svg_card, outcome)
                 /\ ranking_content' =
                        RankingFragment(SvgPath("track_ranking.svg", outcome),
                                        svg_card)
    /\ pc' = "combine"
    /\ UNCHANGED <<exc, latest_content, setupVars, fetchVars, patchVars>>

\* line 645 with the two fragments in the other order
RunCombineRankingFirst ==
    /\ pc = "combine"
    /\ spotify_content' = ranking_content \o NL \o NL \o latest_content
    /\ calls' = Append(calls, spotify_content')
    /\ pc' = "update_readme"
    /\ UNCHANGED <<exc, setupVars, fetchVars, renderVars, readme, readme_orig,
                   content, new_content>>

\* line 645
RunCombine ==
    /\ pc = "combine"
    /\ spotify_content' = latest_content \o NL \o NL \o ranking_content
    /\ calls' = Append(calls, spotify_content')
    /\ pc' = "update_readme"
    /\ UNCHANGED <<exc, setupVars, fetchVars, renderVars, readme, readme_orig,
                   content, new_content>>

(***************************************************************************)
(* update_readme: the sentinel markers and the anchor heading.  The marker *)
(* texts are abbreviated: both start with the same character, as the real  *)
(* ones share "<!-- SPOTIFY_ACTIVITY_", and neither occurs inside the      *)
(* other.                                                                  *)
(***************************************************************************)
start_marker == <<"<", "S">>

end_marker == <<"<", "E">>

activities_heading == <<"#">>

start_pos(c) == Find(c, start_marker)

end_pos(c) == Find(c, end_marker)

activities_pos(c) == Find(c, activities_heading)

\* lines 590-598: both markers found
ReplaceSection(c, frag) ==
    Slice(c, 0, start_pos(c))
        \o start_marker \o NL
        \o frag \o NL
        \o end_marker
        \o SliceFrom(c, end_pos(c) + Len(end_marker))

\* InsertBeforeActivities with the blank line after the end marker left out
InsertBeforeActivitiesNoBlankLine(c, frag) ==
    Slice(c, 0, Find(c, activities_heading))
        \o start_marker \o NL
        \o frag \o NL
        \o end_marker \o NL
        \o SliceFrom(c, Find(c, activities_heading))

\* lines 603-610: insert before the heading
InsertBeforeActivities(c, frag) ==
    Slice(c, 0, activities_pos(c))
        \o start_marker \o NL
        \o frag \o NL
        \o end_marker \o NL \o NL
        \o SliceFrom(c, activities_pos(c))

\* line 614: append at the end of the file
AppendSection(c, frag) ==
    c \o NL \o NL \o start_marker \o NL \o frag \o NL \o end_marker

\* lines 586-615
NewContent(c, frag) ==
    IF start_pos(c) # -1 /\ end_pos(c) # -1
    THEN ReplaceSection(c, frag)
    ELSE IF activities_pos(c) # -1
         THEN InsertBeforeActivities(c, frag)
         ELSE AppendSection(c, frag)

(***************************************************************************)
(* update_readme, step by step.                                            *)
(***************************************************************************)
\* lines 579-615: open for reading, read, splice
UR_Read ==
    /\ pc = "update_readme"
    /\ \/ /\ content' = readme
          /\ new_content' = NewContent(readme, spotify_content)
          /\ pc' = "ur_open"
          /\ exc' = exc
       \/ /\ exc' = "read"
          /\ pc' = "ur_except"
          /\ UNCHANGED <<content, new_content>>
    /\ UNCHANGED <<readme, readme_orig, calls, spotify_content>>
    /\ UNCHANGED <<setupVars, fetchVars, renderVars>>

\* line 618: open(readme_path, 'w') truncates the file
UR_OpenWrite ==
    /\ pc = "ur_open"
    /\ \/ /\ readme' = <<>>
          /\ pc' = "ur_write"
          /\ exc' = exc
       \/ /\ exc' = "open"
          /\ pc' = "ur_except"
          /\ readme' = readme
    /\ UNCHANGED <<readme_orig, calls, spotify_content, content, new_content>>
    /\ UNCHANGED <<setupVars, fetchVars, renderVars>>

\* line 619 and the close of the with block: the text reaches the disk, or
\* an error leaves a prefix of it there
UR_Write ==
    /\ pc = "ur_write"
    /\ \/ /\ readme' = new_content
          /\ pc' = "ur_done"
          /\ exc' = exc
       \/ \E k \in 0..Min(MaxPartial, Len(new_content) - 1) :
            /\ readme' = Slice(new_content, 0, k)
            /\ exc' = "write"
            /\ pc' = "ur_except"
    /\ UNCHANGED <<readme_orig, calls, spotify_content, content, new_content>>
    /\ UNCHANGED <<setupVars, fetchVars, renderVars>>

\* the process is stopped while the file is open for writing
Interrupt ==
    /\ pc = "ur_write"
    /\ \E k \in 0..Min(MaxPartial, Len(new_content)) :
            readme' = Slice(new_content, 0, k)
    /\ pc' = "killed"
    /\ UNCHANGED <<readme_orig, calls, spotify_content, content, new_content, exc>>
    /\ UNCHANGED <<setupVars, fetchVars, renderVars>>

\* UR_Except with the raise left out: the error is logged and swallowed
UR_ExceptSwallowed ==
    /\ pc = "ur_except"
    /\ pc' = "ur_done"
    /\ UNCHANGED <<readme, readme_orig, calls, spotify_content, content, new_content, exc>>
    /\ UNCHANGED <<setupVars, fetchVars, renderVars>>

\* lines 623-626: log and re-raise
UR_Except ==
    /\ pc = "ur_except"
    /\ pc' = "run_except"
    /\ UNCHANGED <<readme, readme_orig, calls, spotify_content, content, new_content, exc>>
    /\ UNCHANGED <<setupVars, fetchVars, renderVars>>

\* lines 650-651: update_readme returned, run returns
RunReturn ==
    /\ pc = "ur_done"
    /\ pc' = "done"
    /\ UNCHANGED <<readme, readme_orig, calls, spotify_content, content, new_content, exc>>
    /\ UNCHANGED <<setupVars, fetchVars, renderVars>>

\* lines 652-655: log and re-raise
RunExcept ==
    /\ pc = "run_except"
    /\ pc' = "raised"
    /\ UNCHANGED <<readme, readme_orig, calls, spotify_content, content, new_content, exc>>
    /\ UNCHANGED <<setupVars, fetchVars, renderVars>>

(***************************************************************************)
(* Claims about update_readme.                                             *)
(***************************************************************************)
Spliced == pc \in {"ur_open", "ur_write", "ur_done", "done"}

BothMarkers(c) == start_pos(c) # -1 /\ end_pos(c) # -1

NoMarker(c) == start_pos(c) = -1 /\ end_pos(c) = -1

\* C1: when the file read holds both markers, whatever their placement, the
\* text to write keeps everything up to and including the start marker and
\* everything from the end marker on, and differs from the file read only by
\* the text strictly between the markers (replaced by "\n" fragment "\n").
C1_ReplaceOnlyBetweenMarkers ==
    (Spliced /\ BothMarkers(content)) =>
        LET keptHead == start_pos(content) + Len(start_marker)
            keptTail == Len(content) - end_pos(content)
            between == Slice(content, keptHead, end_pos(content))
            block == NL \o spotify_content \o NL
        IN  /\ Slice(new_content, 0, keptHead) = Slice(content, 0, keptHead)
            /\ SliceFrom(new_content, Len(new_content) - keptTail)
                   = SliceFrom(content, end_pos(content))
            /\ Len(new_content) = Len(content) - Len(between) + Len(block)

\* C8: when the file read holds neither marker but holds the heading, the
\* text to write is the text before the heading, the start marker, the
\* fragment, the end marker, one blank line, then the heading and the rest.
C8_InsertBeforeHeading ==
    (Spliced /\ NoMarker(content) /\ activities_pos(content) # -1) =>
        LET hp == activities_pos(content)
            block == start_marker \o NL \o spotify_content \o NL \o end_marker
            rest == hp + Len(block) + 2
        IN  /\ SubSeq(new_content, 1, hp) = SubSeq(content, 1, hp)
            /\ SubSeq(new_content, hp + 1, hp + Len(block)) = block
            /\ SubSeq(new_content, hp + Len(block) + 1, rest) = <<"\n", "\n">>
            /\ OccursAt(new_content, activities_heading, rest)
            /\ SubSeq(new_content, rest + 1, Len(new_content))
                   = SubSeq(content, hp + 1, Len(content))

C8_Witness ==
    /\ pc = "done"
    /\ NoMarker(content)
    /\ activities_pos(content) > 0
    /\ activities_pos(content) + 1 < Len(content)
    /\ spotify_content # <<>>
    /\ readme = new_content

\* C9: a run stopped while README.md is open for writing leaves the file
\* with its complete old text or its complete new text.
C9_InterruptedWriteKeepsFile ==
    pc = "killed" => readme \in {content, new_content}

\* C10: an error while reading or writing README.md is never swallowed: the
\* run goes through update_readme's handler and run's handler and ends
\* raised, never done; after an error while reading, the file is as it was.
C10_ReadmeErrorsReachCaller ==
    /\ exc # "none" => pc \in {"ur_except", "run_except", "raised"}
    /\ pc \in {"ur_except", "run_except", "raised"} => exc # "none"
    /\ exc = "read" => readme = readme_orig

C10_Witness ==
    /\ pc = "raised"
    /\ exc = "read"
    /\ readme = readme_orig
    /\ readme # <<>>

(***************************************************************************)
(* The patcher on its own: any file, any fragment.                         *)
(***************************************************************************)
FileParts == {start_marker, end_marker, activities_heading, <<"x">>, <<"<">>}

FragParts == {start_marker, end_marker, <<"x">>}

RECURSIVE TextsOf(_, _)
TextsOf(parts, n) ==
    IF n = 0 THEN {<<>>}
    ELSE LET shorter == TextsOf(parts, n - 1)
         IN  shorter \cup {t \o p : t \in shorter, p \in parts}

Files == TextsOf(FileParts, MaxParts)

Fragments == TextsOf(FragParts, MaxFragParts)

InitPatch ==
    /\ Constructed
    /\ svg_files = NoSvgFiles
    /\ latest_content = <<>>
    /\ ranking_content = <<>>
    /\ net_calls = <<>>
    /\ pc = "update_readme"
    /\ readme \in Files
    /\ readme_orig = readme
    /\ spotify_content \in Fragments
    /\ content = <<>>
    /\ new_content = <<>>
    /\ calls = <<spotify_content>>
    /\ exc = "none"
    /\ spotify_logs = <<>>
    /\ latest_response = NotAsked
    /\ ranking_response = NotAsked
    /\ limit = 0
    /\ latest = Null
    /\ ranking = <<>>

NextPatch ==
    \/ UR_Read
    \/ UR_OpenWrite
    \/ UR_Write
    \/ Interrupt
    \/ UR_Except
    \/ RunReturn
    \/ RunExcept

SpecPatch == InitPatch /\ [][NextPatch]_vars

(***************************************************************************)
(* The patcher run again and again on the file it left.                    *)
(***************************************************************************)
\* lines 658-663 and 648: a later run of the script calls update_readme on
\* the README.md that the run before it wrote
RunAgain ==
    /\ pc = "done"
    /\ Len(calls) < MaxCalls
    /\ \E fragment \in Fragments :
         /\ spotify_content' = fragment
         /\ calls' = Append(calls, fragment)
    /\ content' = <<>>
    /\ new_content' = <<>>
    /\ pc' = "update_readme"
    /\ UNCHANGED <<exc, readme, readme_orig, setupVars, fetchVars, renderVars>>

RepeatFiles == TextsOf(FileParts, MaxRepeatParts)

InitRepeat ==
    /\ InitPatch
    /\ readme \in RepeatFiles

NextRepeat == NextPatch \/ RunAgain

SpecRepeat == InitRepeat /\ [][NextRepeat]_vars

\* how often a text occurs in another
Count(text, sub) ==
    Cardinality({i \in 0..(Len(text) - Len(sub)) : OccursAt(text, sub, i)})

Patched == pc = "ur_done"

\* C17: a call of update_readme with the fragment of the call before it
\* leaves README.md as that call left it.
C17_PatchIdempotent ==
    (Patched /\ Len(calls) >= 2 /\ calls[Len(calls)] = calls[Len(calls) - 1]) =>
        /\ content = NewContent(readme_orig, calls[1]) \/ Len(calls) > 2
        /\ readme = content

MarkerFree(fragment) ==
    ~Contains(fragment, start_marker) /\ ~Contains(fragment, end_marker)

\* C18: after any number of calls of update_readme that succeeded, none with
\* a fragment that holds a marker, README.md holds one start marker and one
\* end marker, the start marker first, and the last fragment between them.
C18_OneSectionAfterPatch ==
    (Patched /\ \A i \in 1..Len(calls) : MarkerFree(calls[i])) =>
        /\ Count(readme, start_marker) = 1
        /\ Count(readme, end_marker) = 1
        /\ start_pos(readme) < end_pos(readme)
        /\ Slice(readme, start_pos(readme) + Len(start_marker), end_pos(readme))
               = NL \o spotify_content \o NL

(***************************************************************************)
(* Claims about get_track_ranking and get_latest_track.                    *)
(***************************************************************************)
Ranked == pc = "format_ranking" /\ ranking_response[1] = "data"

Rows == ranking_response[2]

\* the names of a row or of a ranking entry, a missing name being ''
NamesOf(r) == <<Get(r.track_name, Str(<<>>)), Get(r.artist_name, Str(<<>>))>>

Groups == {NamesOf(Rows[k]) : k \in 1..Len(Rows)}

RowsOf(names) == {k \in 1..Len(Rows) : NamesOf(Rows[k]) = names}

FirstRow(names) == CHOOSE k \in RowsOf(names) : \A j \in RowsOf(names) : k <= j

\* C2: the ranking is in non-increasing order of play_count, each entry's
\* play_count is the number of fetched rows with the entry's track name and
\* artist name, and the ranking has min(limit, number of groups) entries.
C2_CountsOrderTruncation ==
    Ranked =>
        /\ \A i, j \in 1..Len(ranking) :
               i < j => ranking[i].play_count >= ranking[j].play_count
        /\ \A i \in 1..Len(ranking) :
               ranking[i].play_count = Cardinality(RowsOf(NamesOf(ranking[i])))
        /\ Len(ranking) = Min(limit, Cardinality(Groups))

\* C3: two fetched rows are counted under the same key exactly when they
\* have the same track name and the same artist name.
C3_GroupIdentity ==
    Ranked =>
        \A i, j \in 1..Len(Rows) :
            (TrackKey(Rows[i]) = TrackKey(Rows[j]))
                <=> (NamesOf(Rows[i]) = NamesOf(Rows[j]))

\* C4: entries of the ranking with equal play_count stand in the order in
\* which their first rows were fetched.
C4_StableTieBreak ==
    Ranked =>
        \A i, j \in 1..Len(ranking) :
            (i < j /\ ranking[i].play_count = ranking[j].play_count)
                => FirstRow(NamesOf(ranking[i])) < FirstRow(NamesOf(ranking[j]))

C4_Witness ==
    /\ Ranked
    /\ Len(ranking) = 3
    /\ ranking[1].play_count = ranking[3].play_count
    /\ FirstRow(NamesOf(ranking[1])) = 1
    /\ FirstRow(NamesOf(ranking[3])) = 3

\* C15: every entry of the ranking holds the album name, track id, album
\* id, external_urls and popularity of the first fetched row of its group;
\* the later rows of the group add to play_count only.
C15_FirstSeenMetadata ==
    Ranked =>
        \A i \in 1..Len(ranking) :
            LET first == Rows[FirstRow(NamesOf(ranking[i]))]
            IN  /\ ranking[i].album_name = Get(first.album_name, Str(<<>>))
                /\ ranking[i].track_id = Get(first.track_id, Str(<<>>))
                /\ ranking[i].album_id = Get(first.album_id, Str(<<>>))
                /\ ranking[i].external_urls = Get(first.external_urls, EmptyDict)
                /\ ranking[i].popularity = Get(first.popularity, Num(0))

C15_Witness ==
    /\ Ranked
    /\ Len(Rows) = 3
    /\ Len(ranking) = 1
    /\ ranking[1].play_count = 3
    /\ ranking[1].popularity = Num(1)
    /\ Rows[3].popularity = Num(3)
    /\ NamesOf(Rows[3]) = NamesOf(ranking[1])

\* C5: a query that raises, or that gives no rows, makes get_track_ranking
\* return the empty list and get_latest_track return None; the run goes on
\* to the next step, and the error of a query is never in flight.
C5_FetchFailuresSwallowed ==
    /\ (pc = "format_latest" /\ ~HasData(latest_response))
           => (latest = Null /\ exc = "none")
    /\ (pc = "format_ranking" /\ ~HasData(ranking_response))
           => (ranking = <<>> /\ exc = "none")
    /\ exc # "fetch"

C5_Witness ==
    /\ pc = "format_ranking"
    /\ ranking_response = <<"raise">>
    /\ spotify_logs # <<>>
    /\ ranking = <<>>

(***************************************************************************)
(* The two fetch functions on their own: any rows, any limit.              *)
(***************************************************************************)
TrackNames ==
    {Missing, Null, Str(<<>>), Str(<<"N", "o", "n", "e">>),
     Str(<<"a">>), Str(<<"a", "|">>)}

ArtistNames == {Missing, Str(<<"a">>), Str(<<"|", "a">>)}

\* the k-th row fetched: its album name and popularity tell the rows apart
RankRow(t, a, k) ==
    [track_name |-> t, artist_name |-> a, album_name |-> Str(<<ToString(k)>>),
     track_id |-> Str(<<"1">>), album_id |-> Str(<<>>),
     external_urls |-> EmptyDict, popularity |-> Num(k)]

RECURSIVE Tables(_)
Tables(n) ==
    IF n = 0 THEN {<<>>}
    ELSE LET shorter == Tables(n - 1)
         IN  shorter \cup
                 {Append(rows, RankRow(t, a, n)) :
                     rows \in {r \in shorter : Len(r) = n - 1},
                     t \in TrackNames, a \in ArtistNames}

InitRank ==
    /\ Constructed
    /\ svg_files = NoSvgFiles
    /\ latest_content = <<>>
    /\ ranking_content = <<>>
    /\ net_calls = <<>>
    /\ \/ pc = "get_latest" /\ spotify_logs = <<>>
       \/ pc = "get_ranking" /\ spotify_logs \in Tables(MaxRows)
    /\ exc = "none"
    /\ latest_response = NotAsked
    /\ ranking_response = NotAsked
    /\ limit = 0
    /\ latest = Null
    /\ ranking = <<>>
    /\ readme = <<>>
    /\ readme_orig = <<>>
    /\ spotify_content = <<>>
    /\ calls = <<>>
    /\ content = <<>>
    /\ new_content = <<>>

NextRank ==
    \/ GetLatestTrack
    \/ \E lim \in 0..MaxLimit : GetTrackRanking(lim)

SpecRank == InitRank /\ [][NextRank]_vars

(***************************************************************************)
(* Claims about the two formatters.                                        *)
(***************************************************************************)
LatestFormatted == pc = "get_ranking"

RankingFormatted == pc = "combine"

LatestRef == <<"![Latest Track](", "SVG/", "latest_track.svg", ")">>

RankingRef == <<"![Track Ranking](", "SVG/", "track_ranking.svg", ")">>

\* C6 as stated: formatting a missing latest track or an empty ranking
\* raises nothing and returns a fragment that is not empty and holds the text
\* 'No Track', whether the SVG file was saved or not.
C6_FragmentHoldsNoDataText ==
    /\ (LatestFormatted /\ latest = Null) =>
           /\ exc = "none"
           /\ latest_content # <<>>
           /\ Contains(latest_content, NoTrackText)
    /\ (RankingFormatted /\ ranking = <<>>) =>
           /\ exc = "none"
           /\ ranking_content # <<>>
           /\ Contains(ranking_content, NoTrackText)

\* C6 as amended: formatting a missing latest track or an empty ranking
\* raises nothing and returns a fragment that is not empty; the fragment
\* holds the text 'No Track' itself when the SVG file could not be saved, and
\* otherwise refers to the saved SVG file, which holds it.
C6_NoDataCardShown ==
    /\ (LatestFormatted /\ latest = Null) =>
           /\ exc = "none"
           /\ latest_content # <<>>
           /\ \/ Contains(latest_content, NoTrackText)
              \/ /\ Contains(latest_content, LatestRef)
                 /\ Contains(svg_files["latest_track.svg"], NoTrackText)
    /\ (RankingFormatted /\ ranking = <<>>) =>
           /\ exc = "none"
           /\ ranking_content # <<>>
           /\ \/ Contains(ranking_content, NoTrackText)
              \/ /\ Contains(ranking_content, RankingRef)
                 /\ Contains(svg_files["track_ranking.svg"], NoTrackText)

C6_Witness ==
    /\ RankingFormatted
    /\ ranking = <<>>
    /\ Contains(ranking_content, RankingRef)
    /\ ~Contains(ranking_content, NoTrackText)
    /\ Contains(svg_files["track_ranking.svg"], NoTrackText)

Entities == {EscapeChar(c) : c \in {"&", "<", ">", "\"", "'"}}

\* no raw '<', '>' or '"', and every '&' starts a complete escape sequence
WellEscaped(text) ==
    \A i \in 1..Len(text) :
        /\ text[i] \notin {"<", ">", "\""}
        /\ text[i] = "&" => \E e \in Entities : OccursAt(text, e, i - 1)

\* C7: in every fragment returned and every SVG file written, the special
\* characters of the names appear only as complete escape sequences, also
\* when a name is cut at the display limit.
C7_NamesEscapedInSvg ==
    /\ WellEscaped(latest_content)
    /\ WellEscaped(ranking_content)
    /\ \A name \in SvgNames : WellEscaped(svg_files[name])

\* C11 as stated: every image embedded is a data URI, no call raises, and
\* whenever the download of the requested image fails the image embedded is
\* the built-in transparent PNG.
C11_FailedImageIsTransparentPng ==
    \A i \in 1..Len(net_calls) :
        LET c == net_calls[i]
        IN  /\ exc = "none"
            /\ c.image_src[1] = "data:"
            /\ c.primary \in {"non_200", "empty_body", "exception"} =>
                   c.image_src = TransparentPngDataUri

\* C11 as amended: every image embedded is a data URI and no call raises;
\* a requested image that answers with a non-200 status or an empty body, and
\* an empty source URL, give the placeholder downloaded from placehold.co,
\* and the built-in transparent PNG only when that download fails too; an
\* exception of the first request gives the transparent PNG at once.
C11_ImageAlwaysDataUri ==
    \A i \in 1..Len(net_calls) :
        LET c == net_calls[i]
        IN  /\ exc = "none"
            /\ c.image_src[1] = "data:"
            /\ c.primary = "ok" => c.image_src = ArtDataUri
            /\ c.primary = "exception" => c.image_src = TransparentPngDataUri
            /\ c.fallback = "ok" => c.image_src = PlaceholdDataUri
            /\ c.fallback \in {"http_error", "exception"} =>
                   c.image_src = TransparentPngDataUri

C11_Witness ==
    \E i \in 1..Len(net_calls) :
        /\ net_calls[i].album_art_url = ThumbnailUrl
        /\ net_calls[i].primary = "non_200"
        /\ net_calls[i].fallback = "ok"
        /\ net_calls[i].image_src = PlaceholdDataUri

\* the card that the formatter which ran last made: in the SVG file when the
\* fragment refers to it, in the fragment after the title otherwise
LatestCardShown ==
    IF Contains(latest_content, LatestRef) THEN svg_files["latest_track.svg"]
    ELSE SliceFrom(latest_content, Len(LatestTitle \o NL \o NL))

RankingCardShown ==
    IF Contains(ranking_content, RankingRef) THEN svg_files["track_ranking.svg"]
    ELSE SliceFrom(ranking_content, Len(RankingTitle \o NL \o NL))

FailedLookups == {"non_200", "exception", "bad_json", "no_thumbnail", "thumbnail_not_str"}

CompleteCard(card, opening) ==
    /\ card # <<>>
    /\ card[1] = opening
    /\ card[Len(card)] = "</svg>"

\* C12: a cover-art lookup that answers with a non-200 status, a malformed
\* body or a thumbnail_url that is no text, or that raises, gives the empty
\* URL and raises nothing, and the formatter still returns the whole card,
\* with an embedded image for the track.
C12_ArtLookupNeverFailsRender ==
    /\ \A i \in 1..Len(net_calls) :
           net_calls[i].oembed \in FailedLookups =>
               /\ exc = "none"
               /\ net_calls[i].album_art_url = <<>>
               /\ net_calls[i].primary = NotCalled
    /\ (LatestFormatted /\ net_calls[1].oembed \in FailedLookups) =>
           /\ CompleteCard(LatestCardShown, "<svg width=")
           /\ Contains(LatestCardShown,
                       <<"<image xlink:href=">> \o net_calls[1].image_src)
    /\ RankingFormatted =>
           \A i \in 1..Len(net_calls) :
               net_calls[i].oembed \in FailedLookups =>
                   /\ CompleteCard(RankingCardShown, "<svg 900x200>")
                   /\ Contains(RankingCardShown, <<"<rect card ", ToString(i), "/>">>)
                   /\ Truthy(CardTracks(ranking)[i].track_name) =>
                          Contains(RankingCardShown,
                                   <<"<image xlink:href=">> \o net_calls[i].image_src
                                       \o <<"/>", "<text rank>", ToString(i)>>)

C12_Witness ==
    /\ RankingFormatted
    /\ net_calls[1].oembed = "bad_json"
    /\ net_calls[1].image_src = PlaceholdDataUri
    /\ Contains(ranking_content, <<"<image xlink:href=">> \o PlaceholdDataUri)

\* C16: whatever the external_urls of the latest track is, a dict, a JSON
\* text, a text that is no JSON, the empty text, null or a number,
\* _parse_external_urls gives a dict, and the card of the track is rendered.
C16_ParseGivesMap ==
    (LatestFormatted /\ latest # Null) =>
        /\ exc = "none"
        /\ IsDict(parse_external_urls(Get(latest[2].external_urls, EmptyDict)))
        /\ CompleteCard(LatestCardShown, "<svg width=")

(***************************************************************************)
(* The two formatters on their own.  A probe name is a run of plain        *)
(* characters with a tail that may hold a special character.               *)
(***************************************************************************)
RECURSIVE Pad(_)
Pad(k) == IF k = 0 THEN <<>> ELSE <<"x">> \o Pad(k - 1)

Tails == {<<>>, <<"&">>, <<"<">>, <<">">>, <<"\"">>, <<"'">>, <<"&", "x">>}

ProbeNames ==
    {Str(Pad(k) \o tail) : k \in 0..MaxPad, tail \in Tails} \cup {Null, Missing}

ProbeUrls ==
    {EmptyDict, Dict(Str(<<"u", "&", "\"">>)), Dict(Null),
     Json(Dict(Str(<<"u">>))), Json(JsonList), Json(Null), BadJson, Str(<<>>),
     Null, Num(1)}

ProbeRow(t, a, id, urls) ==
    [track_name |-> t, artist_name |-> a, album_name |-> Str(<<>>),
     track_id |-> id, album_id |-> Str(<<>>),
     external_urls |-> urls, popularity |-> Num(0)]

ProbeRows ==
    {ProbeRow(t, Str(<<"b">>), Str(<<>>), EmptyDict) : t \in ProbeNames}
        \cup {ProbeRow(Str(<<"a">>), a, Str(<<>>), EmptyDict) : a \in ProbeNames}
        \cup {ProbeRow(Str(<<"a">>), Str(<<"b">>), id, urls) :
                 id \in {Str(<<>>), Str(<<"1">>), Missing}, urls \in ProbeUrls}

InitRender ==
    /\ Constructed
    /\ \/ /\ pc = "format_latest"
          /\ latest \in {Null} \cup {<<"row", row>> : row \in ProbeRows}
          /\ latest_response = IF latest = Null THEN <<"data", <<>>>>
                               ELSE <<"data", <<latest[2]>>>>
          /\ spotify_logs = <<>>
          /\ ranking_response = NotAsked
          /\ ranking = <<>>
          /\ limit = 0
       \/ /\ pc = "format_ranking"
          /\ spotify_logs \in {<<>>} \cup {<<row>> : row \in ProbeRows}
                                 \cup {<<row, row>> : row \in ProbeRows}
          /\ ranking_response = <<"data", spotify_logs>>
          /\ limit = 3
          /\ ranking = TrackRanking(spotify_logs, limit)
          /\ latest_response = NotAsked
          /\ latest = Null
    /\ exc = "none"
    /\ svg_files = NoSvgFiles
    /\ latest_content = <<>>
    /\ ranking_content = <<>>
    /\ net_calls = <<>>
    /\ readme = <<>>
    /\ readme_orig = <<>>
    /\ spotify_content = <<>>
    /\ calls = <<>>
    /\ content = <<>>
    /\ new_content = <<>>

NextRender ==
    \/ FormatLatestTrack
    \/ FormatTrackRanking

SpecRender == InitRender /\ [][NextRender]_vars

(***************************************************************************)
(* The whole run, lines 628-655, on a few stores and a few files.          *)
(***************************************************************************)
RunLimit == 3

RunRow(t, id, k) ==
    [track_name |-> Str(t), artist_name |-> Str(<<"b">>),
     album_name |-> Str(<<ToString(k)>>), track_id |-> Str(id),
     album_id |-> Str(<<>>), external_urls |-> EmptyDict, popularity |-> Num(k)]

RunTables ==
    {<<RunRow(<<"a">>, <<>>, 1), RunRow(<<"&">>, <<>>, 2), RunRow(<<"&">>, <<>>, 3)>>}

RunFiles ==
    {<<"x">>,
     <<"x">> \o start_marker \o <<"o">> \o end_marker \o <<"y">>,
     <<"x">> \o activities_heading \o <<"y">>}

EnvValues == {Null, Str(<<>>), Str(<<"v">>)}

Init ==
    /\ pc = "construct"
    /\ supabase_url \in EnvValues
    /\ supabase_key \in EnvValues
    /\ supabase = FALSE
    /\ svg_dir = FALSE
    /\ exc = "none"
    /\ spotify_logs \in RunTables
    /\ latest_response = NotAsked
    /\ ranking_response = NotAsked
    /\ limit = 0
    /\ latest = Null
    /\ ranking = <<>>
    /\ svg_files = NoSvgFiles
    /\ latest_content = <<>>
    /\ ranking_content = <<>>
    /\ net_calls = <<>>
    /\ readme \in RunFiles
    /\ readme_orig = readme
    /\ spotify_content = <<>>
    /\ calls = <<>>
    /\ content = <<>>
    /\ new_content = <<>>

Next ==
    \/ Construct
    \/ GetLatestTrack
    \/ FormatLatestTrack
    \/ GetTrackRanking(RunLimit)
    \/ FormatTrackRanking
    \/ RunCombine
    \/ UR_Read
    \/ UR_OpenWrite
    \/ UR_Write
    \/ Interrupt
    \/ UR_Except
    \/ RunReturn
    \/ RunExcept

Spec == Init /\ [][Next]_vars

\* where main has ended: returned, left by an exception, or killed
Terminal == {"done", "raised", "killed"}

Positions ==
    {"construct", "get_latest", "format_latest", "get_ranking", "format_ranking",
     "combine", "update_readme", "ur_open", "ur_write", "ur_done", "ur_except",
     "run_except"} \cup Terminal

\* the script is one thread of straight-line code: where it has not ended,
\* it goes on to another position
Advance == pc \notin Terminal /\ pc' \in Positions \ {pc}

FairSpec == Spec /\ WF_pc(Advance)

(***************************************************************************)
(* Claims about the whole run.                                             *)
(***************************************************************************)
\* C13: a run whose README.md can be read and written, and that is not
\* killed, ends having written README.md once, after both fragments were
\* made, with the latest-track fragment and then the ranking fragment
\* between the markers; the queries, the lookups, the downloads and the
\* saves may go any way.
C13_DegradedRunCompletes ==
    /\ [](pc \in Positions /\ (pc \in Terminal \/ ENABLED Next))
    /\ <>(exc # "none" \/ pc \in {"killed", "done"})
    /\ [](pc = "done" =>
             /\ latest_content # <<>>
             /\ ranking_content # <<>>
             /\ readme # readme_orig
             /\ readme = NewContent(readme_orig,
                                    latest_content \o NL \o NL \o ranking_content)
             /\ Contains(readme, start_marker \o NL \o latest_content \o NL \o NL
                                     \o ranking_content \o NL \o end_marker))
    /\ [][readme' # readme =>
              /\ pc \in {"ur_open", "ur_write"}
              /\ pc' # pc
              /\ latest_content # <<>>
              /\ ranking_content # <<>>]_vars
    /\ [][/\ pc' = "ur_write" => pc = "ur_open"
          /\ pc' = "ur_open" => pc = "update_readme"
          /\ pc' = "update_readme" => pc = "combine"
          /\ pc' = "combine" => pc = "format_ranking"]_vars

C13_Witness ==
    /\ pc = "done"
    /\ latest_response = <<"raise">>
    /\ ranking_response = <<"raise">>
    /\ Contains(readme, LatestTitle)
    /\ Contains(readme, RankingTitle)

\* C14: with SUPABASE_URL or SUPABASE_KEY unset or empty the construction
\* raises, and nothing was done before: no client, no SVG directory, no
\* query, no network call, no SVG file, README.md as it was.
C14_MissingCredentialsFatal ==
    (~Truthy(supabase_url) \/ ~Truthy(supabase_key)) =>
        /\ pc \in {"construct", "raised"}
        /\ pc = "raised" => exc = "config"
        /\ supabase = FALSE
        /\ svg_dir = FALSE
        /\ latest_response = NotAsked
        /\ ranking_response = NotAsked
        /\ net_calls = <<>>
        /\ svg_files = NoSvgFiles
        /\ readme = readme_orig

C14_Witness ==
    /\ supabase_url = Str(<<"v">>)
    /\ supabase_key = Str(<<>>)
    /\ pc = "raised"
    /\ exc = "config"
    /\ readme = readme_orig

=============================================================================
